---- MODULE Spec2Model ----
(***************************************************************************)
(* Model of excel_to_mysql.py: one operator-run import of a spreadsheet    *)
(* into a MySQL table.  The persistent world (configuration file,          *)
(* spreadsheet file, database table) survives from run to run; everything  *)
(* else is the state of one execution of main().                           *)
(*                                                                         *)
(* Text is a sequence of one-character strings, so that sanitising,        *)
(* formatting and str() are computed, not assumed.  A Python value is a    *)
(* record [kind, val]: kind is the Python type, val its payload.           *)
(***************************************************************************)
EXTENDS Integers, Sequences, FiniteSets, TLC

(***************************************************************************)
(* Bounds of the model.                                                    *)
(***************************************************************************)
MaxRuns == 2
MaxCols == 2
MaxRows == 2

(***************************************************************************)
(* Python values.                                                          *)
(***************************************************************************)
PyNone == [kind |-> "None", val |-> <<>>]
PyStr(chars) == [kind |-> "str", val |-> chars]
PyInt(n) == [kind |-> "int", val |-> <<n>>]
\* a float with one decimal digit: whole.tenth
PyFloat(whole, tenth) == [kind |-> "float", val |-> <<whole, tenth>>]
NaN == [kind |-> "nan", val |-> <<>>]
NaT == [kind |-> "NaT", val |-> <<>>]
\* pandas.Timestamp and datetime.datetime: <<year, month, day, hour, minute, second, microsecond>>
Timestamp(f) == [kind |-> "Timestamp", val |-> f]
PyDatetime(f) == [kind |-> "datetime", val |-> f]

\* bool is a subclass of int in Python: True == 1, False == 0
PyTrue == 1
PyFalse == 0

(***************************************************************************)
(* Text helpers: what str() and strftime() produce.                        *)
(***************************************************************************)
Digits == <<"0", "1", "2", "3", "4", "5", "6", "7", "8", "9">>

Digit(d) == Digits[d + 1]

RECURSIVE Pad(_, _)
\* n written in exactly w decimal digits, zero-padded (n < 10^w)
Pad(n, w) == IF w = 0 THEN <<>> ELSE Pad(n \div 10, w - 1) \o <<Digit(n % 10)>>

RECURSIVE NatText(_)
NatText(n) == IF n < 10 THEN <<Digit(n)>> ELSE NatText(n \div 10) \o <<Digit(n % 10)>>

\* str(int)
IntText(n) == IF n < 0 THEN <<"-">> \o NatText(0 - n) ELSE NatText(n)

\* str(float) for a float with one decimal digit: "42.0", "1.5"
FloatText(whole, tenth) == IntText(whole) \o <<".">> \o <<Digit(tenth)>>

\* val.strftime('%Y-%m-%d %H:%M:%S')
Strftime(f) ==
    Pad(f[1], 4) \o <<"-">> \o Pad(f[2], 2) \o <<"-">> \o Pad(f[3], 2) \o <<" ">>
        \o Pad(f[4], 2) \o <<":">> \o Pad(f[5], 2) \o <<":">> \o Pad(f[6], 2)

\* str(datetime.datetime) = isoformat(sep=' '): the microseconds are written
\* when they are not zero
DatetimeText(f) ==
    Strftime(f) \o (IF f[7] = 0 THEN <<>> ELSE <<".">> \o Pad(f[7], 6))

\* str(val) for the values that reach the else branch of convert_timestamp
Str(v) ==
    CASE v.kind = "str" -> v.val
      [] v.kind = "int" -> IntText(v.val[1])
      [] v.kind = "float" -> FloatText(v.val[1], v.val[2])
      [] v.kind = "datetime" -> DatetimeText(v.val)
      [] v.kind = "Timestamp" -> DatetimeText(v.val)
      [] v.kind = "None" -> <<"N", "o", "n", "e">>
      [] v.kind = "NaT" -> <<"N", "a", "T">>
      [] OTHER -> <<"n", "a", "n">>

\* pd.isna(val) on a scalar
IsNa(v) == v.kind \in {"nan", "NaT", "None"}

\* isinstance(val, pd.Timestamp): pd.Timestamp subclasses datetime.datetime,
\* not the other way round
IsTimestamp(v) == v.kind = "Timestamp"

convert_timestamp(v) ==
    IF IsNa(v) THEN PyNone
    ELSE IF IsTimestamp(v) THEN PyStr(Strftime(v.val))
    ELSE PyStr(Str(v))

(***************************************************************************)
(* Column names (line 80).                                                 *)
(***************************************************************************)
\* str.replace(' ', '_').replace('-', '_').replace('.', '_')
Replace(chars) ==
    [i \in 1..Len(chars) |-> IF chars[i] \in {" ", "-", "."} THEN "_" ELSE chars[i]]

\* the back-quote character of line 80 (the lexer of TLA+ accepts none in a string)
BackQuote == "<backquote>"

\* the f-string of line 80: the replaced header between two back-quotes
Sanitize(header) == <<BackQuote>> \o Replace(header.val) \o <<BackQuote>>

\* the identifier a back-quoted name denotes to the server
Ident(col) == SubSeq(col, 2, Len(col) - 1)

(***************************************************************************)
(* The spreadsheet file and the DataFrame pd.read_excel makes of it.       *)
(*                                                                         *)
(* A column of the sheet is a header and the dtype pandas infers for its   *)
(* cells; pandas gives a column of whole numbers int64, a column of        *)
(* numbers with decimals or blanks float64, a column of dates              *)
(* datetime64 (cells pd.Timestamp / NaT), and leaves a column of mixed     *)
(* content object, its cells the Python objects the reader produced (a     *)
(* date cell there is a datetime.datetime).  A numeric header cell gives   *)
(* an int column label.                                                    *)
(***************************************************************************)
ColumnPool ==
    { [header |-> PyStr(<<"a", " ", "b">>), dtype |-> "object"],
      [header |-> PyStr(<<"a", "-", "b">>), dtype |-> "int64"],
      [header |-> PyStr(<<"c", ".", "d">>), dtype |-> "float64"],
      [header |-> PyStr(<<"t">>), dtype |-> "datetime64"],
      [header |-> PyInt(7), dtype |-> "int64"] }

\* the cell of row i in a column of the given dtype
CellAt(dtype, i) ==
    CASE dtype = "int64" -> PyInt(41 + i)
      [] dtype = "float64" -> IF i % 2 = 1 THEN PyFloat(1, 5) ELSE NaN
      [] dtype = "datetime64" ->
            IF i % 2 = 1 THEN Timestamp(<<2024, 1, 2, 3, 4, 5, 500000>>) ELSE NaT
      [] OTHER ->
            CASE i % 3 = 1 -> PyStr(<<"x">>)
              [] i % 3 = 2 -> PyDatetime(<<2024, 1, 2, 3, 4, 5, 250000>>)
              [] OTHER -> NaN

\* the sheets: up to MaxCols different columns, up to MaxRows records
ColSeqs ==
    { cs \in UNION { [1..k -> ColumnPool] : k \in 0..MaxCols } :
        \A i, j \in DOMAIN cs : i # j => cs[i] # cs[j] }

Unreadable == [readable |-> FALSE, cols |-> <<>>, nrows |-> 0]

Files ==
    { [readable |-> TRUE, cols |-> cs, nrows |-> n] : cs \in ColSeqs, n \in 0..MaxRows }
        \cup {Unreadable}

\* pd.read_excel(excel_file) of a readable file: first row the headers, each
\* later row a record
read_excel(file) ==
    [ columns |-> [j \in DOMAIN file.cols |-> file.cols[j].header],
      dtypes |-> [j \in DOMAIN file.cols |-> file.cols[j].dtype],
      rows |-> [i \in 1..file.nrows |->
                  [j \in DOMAIN file.cols |-> CellAt(file.cols[j].dtype, i)]] ]

NoDataFrame == [columns |-> <<>>, dtypes |-> <<>>, rows |-> <<>>]

\* df.iterrows() hands each row over as one Series, so the row has one dtype:
\* a frame of int64 and float64 columns only gives float64 rows (the whole
\* numbers become floats); any other mixture gives object rows, whose values
\* are the cells themselves
Numeric(dtypes) == \A j \in DOMAIN dtypes : dtypes[j] \in {"int64", "float64"}

Upcast(dtypes) == Numeric(dtypes) /\ \E j \in DOMAIN dtypes : dtypes[j] = "float64"

iterrows(frame, i) ==
    [j \in DOMAIN frame.columns |->
        IF Upcast(frame.dtypes) /\ frame.rows[i][j].kind = "int"
        THEN PyFloat(frame.rows[i][j].val[1], 0)
        ELSE frame.rows[i][j]]

\* line 120: values = [convert_timestamp(val) for val in row]
Values(frame, i) ==
    [j \in DOMAIN frame.columns |-> convert_timestamp(iterrows(frame, i)[j])]

\* line 80: the column list; col.replace exists for str headers only
AllStr(frame) == \A j \in DOMAIN frame.columns : frame.columns[j].kind = "str"

Columns(frame) == [j \in DOMAIN frame.columns |-> Sanitize(frame.columns[j])]

(***************************************************************************)
(* The MySQL server: one table, a transactional engine, autocommit off     *)
(* (the connector's default).  The server stays reachable for the whole    *)
(* session: it rejects a statement for what the statement says, a CREATE   *)
(* for its column list, an INSERT for its column list or for a value it    *)
(* cannot store.                                                           *)
(***************************************************************************)
NoTable == [exists |-> FALSE, cols |-> <<>>, rows |-> <<>>]

IdColumn == <<"i", "d">>

Distinct(names) == \A i, j \in DOMAIN names : i # j => names[i] # names[j]

Idents(columns) == [j \in DOMAIN columns |-> Ident(columns[j])]

\* CREATE TABLE IF NOT EXISTS t (id INT AUTO_INCREMENT PRIMARY KEY, c1 TEXT, ...)
\* (lines 83-88).  An empty column list leaves ", )", which no server parses.
\* The server rejects a repeated column name; whether it looks at the names
\* of a table that already exists depends on the server (validates).
CreateAccepted(tbl, columns, validates) ==
    /\ Len(columns) > 0
    /\ (tbl.exists /\ ~validates) \/ Distinct(<<IdColumn>> \o Idents(columns))

\* CREATE OR REPLACE instead: the table is dropped and created anew
CreateTableReplacing(tbl, columns) ==
    [exists |-> TRUE, cols |-> Idents(columns), rows |-> <<>>]

\* the effect of the accepted statement: IF NOT EXISTS leaves a table that
\* exists alone
CreateTable(tbl, columns) ==
    IF tbl.exists THEN tbl
    ELSE [exists |-> TRUE, cols |-> Idents(columns), rows |-> <<>>]

\* INSERT INTO t (c1, ...) VALUES (%s, ...) (line 114): every named column
\* must be a column of the table, none named twice
InsertAccepted(tbl, columns) ==
    /\ tbl.exists
    /\ Distinct(Idents(columns))
    /\ \A j \in DOMAIN columns : \E k \in DOMAIN tbl.cols : tbl.cols[k] = Ident(columns[j])

\* the stored row: each column of the table gets the value given for it, a
\* column not named gets NULL
StoredRow(tbl, columns, values) ==
    [k \in DOMAIN tbl.cols |->
        IF \E j \in DOMAIN columns : Ident(columns[j]) = tbl.cols[k]
        THEN values[CHOOSE j \in DOMAIN columns : Ident(columns[j]) = tbl.cols[k]]
        ELSE PyNone]

(***************************************************************************)
(* State.                                                                  *)
(***************************************************************************)
VARIABLES
    cfgFile,      \* config.ini: "absent", "template", "partial" (a key missing), "valid"
    xlsx,         \* the spreadsheet file on disk
    table,        \* the committed state of the table on the server
    run,          \* the number of this execution of the program
    pc,           \* where main() is: "idle", "read_config", "connect",
                  \* "create_table", "insert", "exited"
    exitStatus,   \* the status the process ended with
    raised,       \* the exception that left main() uncaught, "" if none
    conn,         \* the connection main() holds: "none", "open", "closed"
    closeCount,   \* calls of connection.close()
    pending,      \* rows inserted in the session and not committed
    df,           \* the DataFrame create_table_if_not_exists returned
    columns,      \* the column list it returned
    rowIdx,       \* the row insert_data is about to submit
    records,      \* the local counter of insert_data
    createRet,    \* create_table_if_not_exists: "none", "pair", "null", "raised"
    insertRet,    \* insert_data: <<>> before it returns, <<value>> after
    tableBefore,  \* the table as create_table_if_not_exists found it
    log,          \* the entries of this run's log file
    out,          \* what this run printed
    nConnect,     \* connection attempts of this run
    nRead,        \* reads of the spreadsheet
    nCreate,      \* CREATE TABLE statements executed
    nInsert,      \* INSERT statements executed
    nCommit,      \* commits issued
    cvVal,        \* the cell handed to convert_timestamp
    cvRes         \* what it returned, <<>> before the call

world == <<cfgFile, xlsx, table, run>>
process == <<pc, exitStatus, raised, conn, closeCount, pending, df, columns, rowIdx,
             records, createRet, insertRet, tableBefore, log, out>>
counters == <<nConnect, nRead, nCreate, nInsert, nCommit>>
cell == <<cvVal, cvRes>>
vars == <<world, process, counters, cell>>

Info(text) == [level |-> "INFO", text |-> text, arg |-> 0]
Err(text) == [level |-> "ERROR", text |-> text, arg |-> 0]
Msg(text) == [text |-> text, arg |-> 0]
MsgN(text, n) == [text |-> text, arg |-> n]

\* a process that has just been started
FreshProcess ==
    /\ exitStatus = 0
    /\ raised = ""
    /\ conn = "none"
    /\ closeCount = 0
    /\ pending = <<>>
    /\ df = NoDataFrame
    /\ columns = <<>>
    /\ rowIdx = 1
    /\ records = 0
    /\ createRet = "none"
    /\ insertRet = <<>>
    /\ tableBefore = NoTable
    /\ log = <<>>
    /\ out = <<>>
    /\ nConnect = 0 /\ nRead = 0 /\ nCreate = 0 /\ nInsert = 0 /\ nCommit = 0

Init ==
    /\ cfgFile \in {"absent", "partial", "valid"}
    /\ xlsx \in Files
    /\ table = NoTable
    /\ run = 1
    /\ pc = "idle"
    /\ FreshProcess
    /\ cvVal = NaN
    /\ cvRes = <<>>

(***************************************************************************)
(* main(), one action per step.                                            *)
(***************************************************************************)
\* lines 136-137
MainStart ==
    /\ pc = "idle"
    /\ pc' = "read_config"
    /\ out' = Append(out, Msg("Starting Excel to MySQL data transfer..."))
    /\ log' = Append(log, Info("Starting Excel to MySQL data transfer"))
    /\ UNCHANGED <<world, exitStatus, raised, conn, closeCount, pending, df, columns,
                   rowIdx, records, createRet, insertRet, tableBefore, counters, cell>>

\* create_default_config: the template is written
create_default_config == "template"

\* a read_config whose exit is missing: main() goes on to connect
exit_ignored(status) ==
    /\ pc' = "connect"
    /\ exitStatus' = exitStatus

\* exit(status) (line 23): SystemExit ends the process with that status
exit(status) ==
    /\ pc' = "exited"
    /\ exitStatus' = status

\* read_config (line 140): without a file the template is written and exit(1)
\* ends the process; a file that lacks a key raises KeyError, which nothing
\* catches
ReadConfig ==
    /\ pc = "read_config"
    /\ IF cfgFile = "absent"
       THEN /\ cfgFile' = create_default_config
            /\ log' = Append(log, Info("Created default config file"))
            /\ out' = out \o <<Msg("Created default config file"),
                               Msg("Please update the config file")>>
            /\ exit(1)
            /\ raised' = raised
       ELSE IF cfgFile = "partial"
       THEN /\ pc' = "exited"
            /\ exitStatus' = 1
            /\ raised' = "KeyError"
            /\ UNCHANGED <<cfgFile, log, out>>
       ELSE /\ pc' = "connect"
            /\ UNCHANGED <<cfgFile, log, out, exitStatus, raised>>
    /\ UNCHANGED <<xlsx, table, run, conn, closeCount, pending, df, columns, rowIdx,
                   records, createRet, insertRet, tableBefore, counters, cell>>

\* what mysql.connector.connect and is_connected() can give
ConnectOutcomes == {"connected", "not_connected", "Error"}

\* connect_to_database and lines 143-145 of main
ConnectToDatabase ==
    /\ pc = "connect"
    /\ nConnect' = nConnect + 1
    /\ \E outcome \in ConnectOutcomes :
        CASE outcome = "connected" ->
                /\ conn' = "open"
                /\ log' = Append(log, Info("Connected to MySQL database"))
                /\ pc' = "create_table"
                /\ out' = out
          [] outcome = "Error" ->
                /\ log' = Append(log, Err("Error connecting to MySQL database"))
                /\ out' = Append(out, Msg("Error connecting to MySQL database"))
                /\ pc' = "exited"
                /\ conn' = conn
          [] OTHER ->
                \* is_connected() is false: the function falls off its end
                /\ pc' = "exited"
                /\ UNCHANGED <<conn, log, out>>
    /\ UNCHANGED <<world, exitStatus, raised, closeCount, pending, df, columns, rowIdx,
                   records, createRet, insertRet, tableBefore, nRead, nCreate, nInsert,
                   nCommit, cell>>

\* connection.close(): what the session had not committed is rolled back
Close ==
    /\ conn' = "closed"
    /\ closeCount' = closeCount + 1
    /\ pending' = <<>>

\* an exception no handler catches ends the process; the server rolls back
\* the session it loses
Uncaught(name) ==
    /\ pc' = "exited"
    /\ exitStatus' = 1
    /\ raised' = name
    /\ pending' = <<>>
    /\ UNCHANGED <<conn, closeCount>>

\* create_table_if_not_exists and lines 148-156 of main
CreateTableIfNotExists ==
    /\ pc = "create_table"
    /\ nRead' = nRead + 1
    /\ tableBefore' = table
    /\ IF ~xlsx.readable
       THEN \* pd.read_excel raises (FileNotFoundError, ValueError, BadZipFile):
            \* not a mysql.connector.Error
            /\ Uncaught("read_excel")
            /\ createRet' = "raised"
            /\ UNCHANGED <<table, df, columns, log, out, nCreate, nCommit>>
       ELSE IF ~AllStr(read_excel(xlsx))
       THEN \* col.replace on a header that is no str: AttributeError
            /\ Uncaught("AttributeError")
            /\ createRet' = "raised"
            /\ out' = Append(out, Msg("DataFrame info"))
            /\ log' = Append(log, Info("DataFrame info: None"))
            /\ UNCHANGED <<table, df, columns, nCreate, nCommit>>
       ELSE \E validates \in BOOLEAN :
            /\ nCreate' = nCreate + 1
            /\ IF CreateAccepted(table, Columns(read_excel(xlsx)), validates)
               THEN /\ table' = CreateTable(table, Columns(read_excel(xlsx)))
                    /\ nCommit' = nCommit + 1
                    /\ df' = read_excel(xlsx)
                    /\ columns' = Columns(read_excel(xlsx))
                    /\ createRet' = "pair"
                    /\ out' = Append(out, Msg("DataFrame info"))
                    /\ log' = log \o <<Info("DataFrame info: None"),
                                       Info("Table created or already exists"),
                                       Info("DataFrame data types:")>>
                                  \o [j \in DOMAIN xlsx.cols |-> Info(xlsx.cols[j].dtype)]
                    /\ pc' = "insert"
                    /\ UNCHANGED <<exitStatus, raised, conn, closeCount, pending>>
               ELSE /\ createRet' = "null"
                    /\ out' = out \o <<Msg("DataFrame info"), Msg("Error creating table")>>
                    /\ log' = log \o <<Info("DataFrame info: None"),
                                       Err("Error creating table")>>
                    /\ Close
                    /\ pc' = "exited"
                    /\ UNCHANGED <<table, df, columns, nCommit, exitStatus, raised>>
    /\ UNCHANGED <<cfgFile, xlsx, run, rowIdx, records, insertRet, nConnect, nInsert, cell>>

\* lines 162-170 of main, after insert_data returned
Finish(success, log0, out0) ==
    /\ Close
    /\ IF success
       THEN /\ out' = Append(out0, Msg("Data transfer completed successfully!"))
            /\ log' = log0 \o <<Info("Database connection closed"),
                                Info("Data transfer completed successfully")>>
       ELSE /\ out' = Append(out0, Msg("Data transfer failed. Check log file for details."))
            /\ log' = log0 \o <<Info("Database connection closed"),
                                Err("Data transfer failed")>>
    /\ pc' = "exited"

\* cursor.execute in a session with autocommit on: the row is committed at once
SubmitAutocommit(tbl, pend, row) ==
    [table |-> [tbl EXCEPT !.rows = tbl.rows \o <<row>>], pending |-> pend]

\* cursor.execute(insert_sql, tuple(values)) (line 121): the row joins the
\* session's uncommitted rows, the committed table is as it was
Submit(tbl, pend, row) == [table |-> tbl, pending |-> Append(pend, row)]

\* a loop that forgets to advance the counter
CountStuck(n) == n

\* records += 1 (line 122)
Count(n) == n + 1

\* insert_data, one turn of the loop of lines 118-122; a failed execute
\* raises Error, caught at line 129, and main goes on from line 162
InsertRow ==
    /\ pc = "insert"
    /\ rowIdx <= Len(df.rows)
    /\ nInsert' = nInsert + 1
    /\ \E rejected \in BOOLEAN :   \* the server cannot store a value of the row
        IF InsertAccepted(table, columns) /\ ~rejected
        THEN /\ table' = Submit(table, pending,
                                StoredRow(table, columns, Values(df, rowIdx))).table
             /\ pending' = Submit(table, pending,
                                  StoredRow(table, columns, Values(df, rowIdx))).pending
             /\ records' = Count(records)
             /\ rowIdx' = rowIdx + 1
             /\ UNCHANGED <<pc, conn, closeCount, insertRet, log, out>>
        ELSE /\ insertRet' = <<PyFalse>>
             /\ Finish(FALSE, Append(log, Err("Error inserting data")),
                              Append(out, Msg("Error inserting data")))
             /\ UNCHANGED <<table, records, rowIdx>>
    /\ UNCHANGED <<cfgFile, xlsx, run, exitStatus, raised, df, columns, createRet, tableBefore,
                   nConnect, nRead, nCreate, nCommit, cell>>

\* insert_data after the loop, lines 124-128, and main from line 162
InsertCommit ==
    /\ pc = "insert"
    /\ rowIdx > Len(df.rows)
    /\ table' = [table EXCEPT !.rows = table.rows \o pending]
    /\ nCommit' = nCommit + 1
    /\ insertRet' = <<PyTrue>>
    /\ Finish(TRUE, Append(log, [level |-> "INFO", text |-> "Successfully inserted",
                                 arg |-> records]),
                    Append(out, MsgN("Successfully inserted", records)))
    /\ UNCHANGED <<cfgFile, xlsx, run, exitStatus, raised, df, columns, rowIdx, records,
                   createRet, tableBefore, nConnect, nRead, nCreate, nInsert, cell>>

(***************************************************************************)
(* The operator: after a run, the configuration is left or completed, the  *)
(* spreadsheet left or replaced, and the program started again.            *)
(***************************************************************************)
\* what the operator may have made of the spreadsheet by the next run: the
\* same file, a record more, a last column more, less or other, a file that
\* cannot be read; an unreadable file is replaced by any file
Edits(file) ==
    IF ~file.readable THEN Files
    ELSE { f \in Files :
            \/ f = file
            \/ f = Unreadable
            \/ f.readable /\ f.cols = file.cols /\ f.nrows = file.nrows + 1
            \/ /\ f.readable
               /\ f.nrows = file.nrows
               /\ \/ /\ Len(f.cols) = Len(file.cols) + 1
                     /\ SubSeq(f.cols, 1, Len(file.cols)) = file.cols
                  \/ /\ Len(file.cols) > 0
                     /\ Len(f.cols) \in {Len(file.cols) - 1, Len(file.cols)}
                     /\ SubSeq(f.cols, 1, Len(file.cols) - 1)
                            = SubSeq(file.cols, 1, Len(file.cols) - 1) }

OperatorRetries ==
    /\ pc = "exited"
    /\ run < MaxRuns
    /\ run' = run + 1
    /\ cfgFile' \in {cfgFile, "valid"}
    /\ xlsx' \in Edits(xlsx)
    /\ pc' = "idle"
    /\ exitStatus' = 0
    /\ raised' = ""
    /\ conn' = "none"
    /\ closeCount' = 0
    /\ pending' = <<>>
    /\ df' = NoDataFrame
    /\ columns' = <<>>
    /\ rowIdx' = 1
    /\ records' = 0
    /\ createRet' = "none"
    /\ insertRet' = <<>>
    /\ tableBefore' = NoTable
    /\ log' = <<>>
    /\ out' = <<>>
    /\ nConnect' = 0 /\ nRead' = 0 /\ nCreate' = 0 /\ nInsert' = 0 /\ nCommit' = 0
    /\ UNCHANGED <<table, cell>>

Next ==
    \/ MainStart
    \/ ReadConfig
    \/ ConnectToDatabase
    \/ CreateTableIfNotExists
    \/ InsertRow
    \/ InsertCommit
    \/ OperatorRetries

Spec == Init /\ [][Next]_vars

(***************************************************************************)
(* convert_timestamp on its own: a cell is drawn, the function applied.    *)
(***************************************************************************)
DateTimeFields ==
    { <<y, mo, d, h, mi, sec, us>> :
        y \in {1999, 2024}, mo \in {1, 12}, d \in {2, 31}, h \in {0, 23},
        mi \in {4}, sec \in {5, 59}, us \in {0, 7, 500000} }

CellValues ==
    {NaN, NaT, PyNone}
        \cup { Timestamp(f) : f \in DateTimeFields }
        \cup { PyDatetime(f) : f \in DateTimeFields }
        \cup { PyInt(n) : n \in {-5, 0, 42} }
        \cup { PyFloat(w, t) : w \in {0, 42}, t \in {0, 5} }
        \cup { PyStr(<<"x">>), PyStr(<<"J", "a", "n", "e", " ", "D", "o", "e">>) }

InitConvert ==
    /\ cfgFile = "valid"
    /\ xlsx = Unreadable
    /\ table = NoTable
    /\ run = 1
    /\ pc = "idle"
    /\ FreshProcess
    /\ cvVal \in CellValues
    /\ cvRes = <<>>

\* one call of convert_timestamp (lines 98-105)
ConvertCell ==
    /\ cvRes = <<>>
    /\ cvRes' = <<convert_timestamp(cvVal)>>
    /\ UNCHANGED <<world, process, counters, cvVal>>

SpecConvert == InitConvert /\ [][ConvertCell]_vars

(***************************************************************************)
(* What the claims speak of.                                               *)
(***************************************************************************)
Printed(text) == \E i \in DOMAIN out : out[i].text = text

LoggedError == \E i \in DOMAIN log : log[i].level = "ERROR"

FailureMessages ==
    { "Error connecting to MySQL database", "Error creating table",
      "Error inserting data", "Data transfer failed. Check log file for details." }

FinalMessages == FailureMessages \cup {"Data transfer completed successfully!"}

\* main() got a connection from connect_to_database
Connected == conn \in {"open", "closed"}

\* the process is over and had read its configuration
RanPastConfig == pc = "exited" /\ nConnect > 0

\* insert_data committed and returned
InsertSucceeded == insertRet # <<>> /\ nCommit = 2

\* the cells the claims call missing, and those they call timestamps
Missing(v) == v.kind \in {"nan", "NaT", "None"}

DateTimeCell(v) == v.kind \in {"Timestamp", "datetime"}

\* YYYY-MM-DD HH:MM:SS and nothing more
TimestampForm(chars) ==
    /\ Len(chars) = 19
    /\ chars[5] = "-" /\ chars[8] = "-" /\ chars[11] = " "
    /\ chars[14] = ":" /\ chars[17] = ":"
    /\ \A i \in (1..19) \ {5, 8, 11, 14, 17} : \E d \in 0..9 : chars[i] = Digit(d)

(***************************************************************************)
(* C1: in every run in which connect_to_database returned an open          *)
(* connection, the connection is closed exactly once before the run ends,  *)
(* on every exit path; no run ends with it open.                           *)
(***************************************************************************)
C1_ClosedExactlyOnce ==
    (pc = "exited" /\ Connected) => (conn = "closed" /\ closeCount = 1)

(***************************************************************************)
(* C2: create_table_if_not_exists never raises to its caller; on any       *)
(* failure it returns (None, None), and main() ends the run without        *)
(* executing an INSERT.                                                    *)
(***************************************************************************)
C2_CreateNeverRaises ==
    /\ createRet # "raised"
    /\ createRet = "null" => (pc = "exited" /\ nInsert = 0)

(***************************************************************************)
(* C3: when the connection cannot be established, connect_to_database      *)
(* returns None without raising and main() ends normally, with no          *)
(* spreadsheet read, no CREATE TABLE, no INSERT, no commit, and the        *)
(* failure reported to the operator.                                       *)
(***************************************************************************)
C3_NoConnectionReported ==
    (RanPastConfig /\ ~Connected) =>
        /\ raised = "" /\ exitStatus = 0
        /\ nRead = 0 /\ nCreate = 0 /\ nInsert = 0 /\ nCommit = 0
        /\ \E m \in FailureMessages : Printed(m)

(***************************************************************************)
(* C4: insert_data commits exactly once, after an INSERT was executed for  *)
(* every row, never between rows; if the INSERT of row k fails, the insert *)
(* phase commits nothing, the run leaves no row of its own in the table,   *)
(* and the failure is returned to main(), not raised.                      *)
(***************************************************************************)
C4_CommitOnceAfterAllRows ==
    /\ pc = "insert" =>
        /\ nCommit = 1
        /\ table.rows = tableBefore.rows
        /\ Len(pending) = nInsert
    /\ insertRet = <<PyTrue>> =>
        /\ nCommit = 2
        /\ nInsert = Len(df.rows)
        /\ Len(table.rows) = Len(tableBefore.rows) + Len(df.rows)
    /\ insertRet = <<PyFalse>> =>
        /\ nCommit = 1
        /\ table.rows = tableBefore.rows
        /\ pending = <<>>
        /\ pc = "exited" /\ raised = "" /\ exitStatus = 0

\* row 2 failed after row 1 had been submitted
C4_Witness == insertRet = <<PyFalse>> /\ nInsert = 2 /\ records = 1

(***************************************************************************)
(* C5: a successful run on a table that did not exist leaves exactly the   *)
(* N rows of the dataset in the table, in order, each stored value equal   *)
(* to convert_timestamp of the dataset's cell, under the sanitized name    *)
(* of its header.                                                          *)
(***************************************************************************)
C5_RoundTrip ==
    (InsertSucceeded /\ ~tableBefore.exists) =>
        /\ table.cols = [j \in DOMAIN df.columns |-> Replace(df.columns[j].val)]
        /\ Len(table.rows) = Len(df.rows)
        /\ \A i \in DOMAIN df.rows : \A j \in DOMAIN df.columns :
              table.rows[i][j] = convert_timestamp(df.rows[i][j])

(***************************************************************************)
(* C6: when no configuration file exists, read_config writes the template  *)
(* and ends the process with a non-zero status before any later step: no   *)
(* connection attempt, no read of the spreadsheet, no table, no row.       *)
(***************************************************************************)
C6_MissingConfigStopsRun ==
    /\ cfgFile = "absent" =>
        /\ pc \in {"idle", "read_config"}
        /\ table = NoTable
    /\ Printed("Created default config file") =>
        /\ pc = "exited" /\ exitStatus = 1 /\ raised = ""
        /\ cfgFile = "template"
        /\ conn = "none" /\ pending = <<>> /\ createRet = "none"
        /\ nConnect = 0 /\ nRead = 0 /\ nCreate = 0 /\ nInsert = 0 /\ nCommit = 0
        /\ run = 1 => table = NoTable

C6_Witness == Printed("Created default config file") /\ pc = "exited"

(***************************************************************************)
(* C7 as stated: a second call of create_table_if_not_exists for the same  *)
(* table, with the same or a changed header set, neither raises nor fails  *)
(* and leaves the table's columns and rows as they were.                   *)
(***************************************************************************)
C7_SecondCallNeverFails ==
    (createRet # "none" /\ tableBefore.exists /\ xlsx.readable) =>
        /\ createRet = "pair"
        /\ nCommit <= 1 => table = tableBefore

\* the headers of the spreadsheet sanitize to the names of the table's columns
SameNames ==
    /\ xlsx.readable
    /\ AllStr(read_excel(xlsx))
    /\ Idents(Columns(read_excel(xlsx))) = tableBefore.cols

(***************************************************************************)
(* C7 as amended: a call of create_table_if_not_exists on an existing      *)
(* table never alters it, whatever the spreadsheet and whether the call    *)
(* returns, fails or raises: the columns and the existing rows stay; and   *)
(* the call succeeds when the headers sanitize to the table's column       *)
(* names, as those of the same spreadsheet do.                             *)
(***************************************************************************)
C7_ExistingTableNeverAltered ==
    (createRet # "none" /\ tableBefore.exists) =>
        /\ table.exists
        /\ table.cols = tableBefore.cols
        /\ Len(table.rows) >= Len(tableBefore.rows)
        /\ SubSeq(table.rows, 1, Len(tableBefore.rows)) = tableBefore.rows
        /\ nCommit <= 1 => table = tableBefore
        /\ SameNames => createRet = "pair"

\* a second call with a changed header set on a table that holds rows
C7_Witness ==
    /\ createRet = "pair"
    /\ tableBefore.exists
    /\ Len(tableBefore.rows) > 0
    /\ Idents(columns) # tableBefore.cols

(***************************************************************************)
(* C8: no failure is silent: a run that got past configuration loading and *)
(* did not complete the insert phase has logged an error and printed a     *)
(* failure message before it ends, and every such run prints a final       *)
(* success or failure message.                                             *)
(***************************************************************************)
C8_NoSilentFailure ==
    RanPastConfig =>
        /\ out[Len(out)].text \in FinalMessages
        /\ insertRet # <<PyTrue>> => (LoggedError /\ \E m \in FailureMessages : Printed(m))

(***************************************************************************)
(* C9 as stated: on full success insert_data returns the number of rows    *)
(* it submitted, the number of rows of the dataset.                        *)
(***************************************************************************)
C9_ReturnsCount == InsertSucceeded => insertRet[1] = Len(df.rows)

(***************************************************************************)
(* C9 as amended: on full success insert_data returns True; the number of  *)
(* rows it submitted, one per executed INSERT and equal to the number of   *)
(* rows of the dataset, is what it prints and logs.                        *)
(***************************************************************************)
C9_ReportsCount ==
    InsertSucceeded =>
        /\ insertRet[1] = PyTrue
        /\ records = Len(df.rows)
        /\ records = nInsert
        /\ \E i \in DOMAIN out : out[i] = MsgN("Successfully inserted", Len(df.rows))
        /\ \E i \in DOMAIN log :
              log[i] = [level |-> "INFO", text |-> "Successfully inserted",
                        arg |-> Len(df.rows)]

C9_Witness == InsertSucceeded /\ Len(df.rows) = 2

(***************************************************************************)
(* C10: convert_timestamp maps every missing cell to None, every           *)
(* timestamp cell to text of exactly the form YYYY-MM-DD HH:MM:SS, and     *)
(* every other value to its plain text.                                    *)
(***************************************************************************)
C10_ConvertMapping ==
    cvRes # <<>> =>
        /\ Missing(cvVal) => cvRes[1] = PyNone
        /\ DateTimeCell(cvVal) => (cvRes[1].kind = "str" /\ TimestampForm(cvRes[1].val))
        /\ (~Missing(cvVal) /\ ~DateTimeCell(cvVal)) => cvRes[1] = PyStr(Str(cvVal))

====
